---------------------------- MODULE Spec2Model ----------------------------
(***************************************************************************)
(* ezbookkeeping_tools (src/main.go): a single-threaded command-line tool  *)
(* that resolves its configuration, authenticates against a bookkeeping    *)
(* API, fetches the account list, separates it into assets and             *)
(* liabilities, exports both buckets as CSV, renders an HTML report and    *)
(* optionally mails it.                                                    *)
(*                                                                         *)
(* Text that the code inspects character by character (currency codes,    *)
(* formatted balances, the SMTP_PORT value) is a sequence of one-character *)
(* strings; text the code only compares with "" or copies is a string.    *)
(* float64 amounts are exact rationals: every balance of the model is an   *)
(* integer far below 2^53 and every divisor is a power of ten.             *)
(***************************************************************************)
EXTENDS Integers, Sequences, FiniteSets, TLC

VARIABLES
    pc,              \* position of main; "returned" and "exit" (os.Exit) end it
    exitCode,        \* the process exit status once main has ended, else -1
    baseURL, loginName, password, debugMode, printMode,
    emailRecipient, smtpHost, smtpPort, smtpUsername, smtpPassword, smtpSender,
    env,             \* process environment (os.Getenv / godotenv.Load)
    configFile,      \* what the file system holds at the -config path
    authToken,       \* main's authToken
    accounts,        \* main's accounts
    assets,          \* main's assets
    liabilities,     \* main's liabilities
    files,           \* working directory: file name -> rows, or NoFile
    htmlContent,     \* main's htmlContent (the parts the report computes)
    stdout,          \* what fmt.Print* wrote
    logged,          \* what log.Print* / log.Fatal* wrote
    effects,         \* external calls made so far, in order
    responses        \* HTTP responses received so far, in order

cfgVars == <<baseURL, loginName, password, debugMode, printMode,
             emailRecipient, smtpHost, smtpPort, smtpUsername, smtpPassword,
             smtpSender>>
dataVars == <<authToken, accounts, assets, liabilities, htmlContent>>
ioVars == <<files, stdout, logged, effects, responses>>
vars == <<pc, exitCode, cfgVars, env, configFile, dataVars, ioVars>>

-----------------------------------------------------------------------------
(* Bounds of the model *)

\* longest account list the API returns in the pipeline specification
MaxListLen == 2
\* longest account list given to the partitioner and the report on their own
MaxAccounts == 3
\* balances -MaxBal..MaxBal (minor units) are enumerated besides the named ones
MaxBal == 12

-----------------------------------------------------------------------------
(* Text helpers *)

LowerChars == <<"a","b","c","d","e","f","g","h","i","j","k","l","m",
                "n","o","p","q","r","s","t","u","v","w","x","y","z">>
UpperChars == <<"A","B","C","D","E","F","G","H","I","J","K","L","M",
                "N","O","P","Q","R","S","T","U","V","W","X","Y","Z">>
DigitChars == <<"0","1","2","3","4","5","6","7","8","9">>

UpperChar(c) ==
    IF \E i \in 1..Len(LowerChars) : LowerChars[i] = c
    THEN UpperChars[CHOOSE i \in 1..Len(LowerChars) : LowerChars[i] = c]
    ELSE c

\* strings.ToUpper
ToUpper(s) == [i \in 1..Len(s) |-> UpperChar(s[i])]

RECURSIVE Pow10(_)
\* math.Pow(10, float64(exp)) for the exponents of the table
Pow10(e) == IF e = 0 THEN 1 ELSE 10 * Pow10(e - 1)

RECURSIVE Digits(_)
\* decimal digits of a natural number, most significant first
Digits(n) ==
    IF n < 10 THEN <<DigitChars[n + 1]>>
    ELSE Append(Digits(n \div 10), DigitChars[(n % 10) + 1])

RECURSIVE ZeroPad(_, _)
ZeroPad(s, width) == IF Len(s) >= width THEN s ELSE ZeroPad(<<"0">> \o s, width)

Abs(n) == IF n < 0 THEN -n ELSE n

\* fmt.Sprintf("%.*f", prec, num/den): fixed point, prec digits after the
\* point, no point when prec = 0, round to nearest (ties to even)
FormatFixed(prec, num, den) ==
    LET scaled == Abs(num) * Pow10(prec)
        q == scaled \div den
        r == scaled % den
        rounded == IF 2 * r > den \/ (2 * r = den /\ q % 2 = 1) THEN q + 1 ELSE q
        intPart == rounded \div Pow10(prec)
        frac == rounded % Pow10(prec)
        sign == IF num < 0 THEN <<"-">> ELSE <<>>
    IN  sign \o Digits(intPart)
             \o (IF prec > 0 THEN <<".">> \o ZeroPad(Digits(frac), prec) ELSE <<>>)

\* one message on stdout or in the log: its text and, where it has them, the
\* file it names, the count it gives and the rows it carries
Line(msg, file, n, rows) == [msg |-> msg, file |-> file, n |-> n, rows |-> rows]

Say(msg) == Line(msg, "", 0, <<>>)

-----------------------------------------------------------------------------
(* Currency exponents and balance conversion *)

currencyExponents ==
    (<<"U","S","D">> :> 2) @@ (<<"E","U","R">> :> 2) @@ (<<"G","B","P">> :> 2) @@
    (<<"J","P","Y">> :> 0) @@ (<<"C","N","Y">> :> 2) @@ (<<"I","N","R">> :> 2) @@
    (<<"C","A","D">> :> 2) @@ (<<"A","U","D">> :> 2) @@ (<<"H","U","F">> :> 2) @@
    (<<"J","O","D">> :> 3) @@ (<<"K","W","D">> :> 3) @@ (<<"O","M","R">> :> 3)

\* exp, ok := currencyExponents[strings.ToUpper(currency)]; if !ok { exp = 2 }
exponentFor(currency) ==
    LET up == ToUpper(currency)
    IN  IF up \in DOMAIN currencyExponents THEN currencyExponents[up] ELSE 2

\* a plausible slip: the table is consulted with the code as received
convertBalance_caseSensitive(balance, currency) ==
    LET exp == IF currency \in DOMAIN currencyExponents
               THEN currencyExponents[currency] ELSE 2
    IN  FormatFixed(exp, balance, Pow10(exp))

convertBalance(balance, currency) ==
    LET exp == exponentFor(currency)
        divisor == Pow10(exp)
    IN  FormatFixed(exp, balance, divisor)

\* AccountCategory.String
CategoryString(a) ==
    CASE a = 1 -> "Cash"
      [] a = 2 -> "Checking Account"
      [] a = 3 -> "Credit Card"
      [] a = 4 -> "Virtual Account"
      [] a = 5 -> "Debt Account"
      [] a = 6 -> "Receivables"
      [] a = 7 -> "Investment Account"
      [] a = 8 -> "Savings Account"
      [] a = 9 -> "Certificate of Deposit"
      [] OTHER -> "Unknown"

\* fmt.Sprintf("%t", b)
BoolString(b) == IF b THEN "true" ELSE "false"


-----------------------------------------------------------------------------
(* Separation of the fetched accounts (main, step 3) *)

RECURSIVE SeparateLoop(_, _, _, _)
\* for _, account := range accounts { if IsAsset {..} else if IsLiability {..} }
SeparateLoop(accts, i, a, l) ==
    IF i > Len(accts) THEN [assets |-> a, liabilities |-> l]
    ELSE LET account == accts[i]
         IN  IF account.IsAsset THEN SeparateLoop(accts, i + 1, Append(a, account), l)
             ELSE IF account.IsLiability
                  THEN SeparateLoop(accts, i + 1, a, Append(l, account))
                  ELSE SeparateLoop(accts, i + 1, a, l)

RECURSIVE SeparateLoop_noElse(_, _, _, _)
SeparateLoop_noElse(accts, i, a, l) ==
    IF i > Len(accts) THEN [assets |-> a, liabilities |-> l]
    ELSE LET account == accts[i]
             a2 == IF account.IsAsset THEN Append(a, account) ELSE a
             l2 == IF account.IsLiability THEN Append(l, account) ELSE l
         IN  SeparateLoop_noElse(accts, i + 1, a2, l2)

\* a plausible slip: two independent ifs instead of if / else if
SeparateAccounts_noElse(accts) == SeparateLoop_noElse(accts, 1, <<>>, <<>>)

SeparateAccounts(accts) == SeparateLoop(accts, 1, <<>>, <<>>)

-----------------------------------------------------------------------------
(* CSV export: the rows exportToCSV prepares in memory *)

csvHeader ==
    <<"ID", "Name", "Currency", "Balance", "Category", "IsAsset", "IsLiability", "Comment">>

\* a plausible slip: the minor-unit balance is written unconverted
csvRow_rawBalance(acc) ==
    <<acc.ID, acc.Name, acc.Currency, FormatFixed(0, acc.Balance, 1),
      CategoryString(acc.Category), BoolString(acc.IsAsset),
      BoolString(acc.IsLiability), acc.Comment>>

csvRow(acc) ==
    <<acc.ID, acc.Name, acc.Currency, convertBalance(acc.Balance, acc.Currency),
      CategoryString(acc.Category), BoolString(acc.IsAsset),
      BoolString(acc.IsLiability), acc.Comment>>

csvData(accts) == <<csvHeader>> \o [i \in 1..Len(accts) |-> csvRow(accts[i])]

(* encoding/csv as exportToCSV uses it: csv.NewWriter(file).WriteAll(data).
   A field is a sequence of characters; a string the model never looks
   inside stands for one ordinary character. *)

Chars(str) == IF str = "" THEN <<>> ELSE <<str>>

\* the cells of data[i] as text: the header and the ID, Name, Category and
\* flag cells are strings; Currency, Balance and Comment are kept by
\* character
csvFields(data, i) ==
    [j \in 1..Len(data[i]) |->
        IF i > 1 /\ j \in {3, 4, 8} THEN data[i][j] ELSE Chars(data[i][j])]

Quote == "\""

\* a plausible slip: fields are written as they are
fieldNeedsQuotes_never(field) == FALSE

\* csv.Writer.fieldNeedsQuotes with Comma = ','
fieldNeedsQuotes(field) ==
    IF field = <<>> THEN FALSE
    ELSE IF field = <<"\\", ".">> THEN TRUE
    ELSE \/ \E k \in 1..Len(field) : field[k] \in {",", Quote, "\r", "\n"}
         \/ field[1] \in {" ", "\t"}

RECURSIVE escapeQuoted(_, _)
\* the inside of a quoted field: a quote is doubled, UseCRLF is off
escapeQuoted(field, k) ==
    IF k > Len(field) THEN <<>>
    ELSE (IF field[k] = Quote THEN <<Quote, Quote>> ELSE <<field[k]>>)
            \o escapeQuoted(field, k + 1)

writeField(field) ==
    IF fieldNeedsQuotes(field)
    THEN <<Quote>> \o escapeQuoted(field, 1) \o <<Quote>>
    ELSE field

RECURSIVE writeFields(_, _)
writeFields(record, j) ==
    IF j > Len(record) THEN <<>>
    ELSE (IF j > 1 THEN <<",">> ELSE <<>>) \o writeField(record[j])
            \o writeFields(record, j + 1)

\* csv.Writer.Write: the fields joined by commas, then a line feed
csvWrite(record) == writeFields(record, 1) \o <<"\n">>

RECURSIVE csvWriteRows(_, _, _)
\* csv.Writer.WriteAll, of which the first n records reach the file
csvWriteRows(data, i, n) ==
    IF i > n THEN <<>>
    ELSE csvWrite(csvFields(data, i)) \o csvWriteRows(data, i + 1, n)

csvWriteAll(data, n) == csvWriteRows(data, 1, n)

-----------------------------------------------------------------------------
(* HTML report *)

\* amounts in major units are kept in thousandths of a major unit: the
\* largest exponent of the table is 3, so balance / 10^exp is exact
MajorScale == Pow10(3)

majorUnitBalance(acc) ==
    (acc.Balance * MajorScale) \div Pow10(exponentFor(acc.Currency))

RECURSIVE SumMajor_foldCase(_, _, _)
\* a plausible slip: the totals are grouped as the exponent is looked up,
\* whatever the letter case
SumMajor_foldCase(accts, currency, i) ==
    IF i > Len(accts) THEN 0
    ELSE (IF ToUpper(accts[i].Currency) = ToUpper(currency)
          THEN majorUnitBalance(accts[i]) ELSE 0)
         + SumMajor_foldCase(accts, currency, i + 1)

RECURSIVE SumMajor(_, _, _)
SumMajor(accts, currency, i) ==
    IF i > Len(accts) THEN 0
    ELSE (IF accts[i].Currency = currency THEN majorUnitBalance(accts[i]) ELSE 0)
         + SumMajor(accts, currency, i + 1)

\* calculateTotalBalances: totals[acc.Currency] += majorUnitBalance
calculateTotalBalances(accts) ==
    [currency \in {accts[i].Currency : i \in 1..Len(accts)} |->
        SumMajor(accts, currency, 1)]

\* a plausible slip: the class is fixed, as for the other two figures
getBalanceClass_alwaysPositive(balance) == "positive"

getBalanceClass(balance) == IF balance >= 0 THEN "positive" ELSE "negative"

\* fmt.Sprintf("%.2f", v) of a value held in thousandths.  A value that
\* lies exactly between two hundredths is rounded by Go according to its
\* float64 digits; here it goes to the even hundredth.
shownAmount(v) == FormatFixed(2, v, MajorScale)

\* a plausible slip: the liabilities are counted into Net Assets and left
\* out of Total Assets
summaryEntry_netOfLiabilities(currency, total, liabilityTotals) ==
    LET liabilityTotal == IF currency \in DOMAIN liabilityTotals
                          THEN liabilityTotals[currency] ELSE 0
        totalAsset == total
        netAsset == totalAsset + liabilityTotal
    IN  [currency |-> currency,
         totalAssets |-> totalAsset, totalAssetsClass |-> "positive",
         totalAssetsText |-> shownAmount(totalAsset),
         totalLiabilities |-> liabilityTotal, totalLiabilitiesClass |-> "negative",
         totalLiabilitiesText |-> shownAmount(liabilityTotal),
         netAssets |-> netAsset, netAssetsClass |-> getBalanceClass(netAsset),
         netAssetsText |-> shownAmount(netAsset)]

\* the three summary lines generateHTMLReport writes for one currency of
\* assetTotals: the values, their classes and the figures as printed
summaryEntry(currency, total, liabilityTotals) ==
    LET liabilityTotal == IF currency \in DOMAIN liabilityTotals
                          THEN liabilityTotals[currency] ELSE 0
        totalAsset == total - liabilityTotal
        netAsset == totalAsset + liabilityTotal
    IN  [currency |-> currency,
         totalAssets |-> totalAsset, totalAssetsClass |-> "positive",
         totalAssetsText |-> shownAmount(totalAsset),
         totalLiabilities |-> liabilityTotal, totalLiabilitiesClass |-> "negative",
         totalLiabilitiesText |-> shownAmount(liabilityTotal),
         netAssets |-> netAsset, netAssetsClass |-> getBalanceClass(netAsset),
         netAssetsText |-> shownAmount(netAsset)]

\* a plausible slip: the cell is tagged by the asset flag
htmlTableRow_byAssetFlag(acc) ==
    [name |-> acc.Name, currency |-> acc.Currency,
     balanceClass |-> IF acc.IsAsset THEN "positive" ELSE "negative",
     balance |-> convertBalance(acc.Balance, acc.Currency),
     category |-> CategoryString(acc.Category), comment |-> acc.Comment]

htmlTableRow(acc) ==
    [name |-> acc.Name, currency |-> acc.Currency,
     balanceClass |-> IF acc.IsLiability THEN "negative" ELSE "positive",
     balance |-> convertBalance(acc.Balance, acc.Currency),
     category |-> CategoryString(acc.Category), comment |-> acc.Comment]

NoAccountsFound == "<p>No accounts found in this category.</p>"

generateHTMLTable(accts) ==
    IF Len(accts) = 0 THEN NoAccountsFound
    ELSE [i \in 1..Len(accts) |-> htmlTableRow(accts[i])]

\* the summary is the set of its entries: Go ranges over the map in no
\* fixed order
generateHTMLReport(as, ls) ==
    LET assetTotals == calculateTotalBalances(as)
        liabilityTotals == calculateTotalBalances(ls)
    IN  [summary |-> {summaryEntry(c, assetTotals[c], liabilityTotals) :
                         c \in DOMAIN assetTotals},
         assetTable |-> generateHTMLTable(as),
         liabilityTable |-> generateHTMLTable(ls)]

-----------------------------------------------------------------------------
(* Configuration: flags (init, flag.Parse) and the config file *)

DefaultSmtpPort == 587

\* the values the flag package leaves in the globals when no flag is given
FlagDefaults ==
    [url |-> "", user |-> "", pass |-> "", debug |-> FALSE, print |-> FALSE,
     emailTo |-> "", smtpHost |-> "", smtpPort |-> DefaultSmtpPort, smtpUser |-> "",
     smtpPass |-> "", smtpFrom |-> ""]

\* a URL http.NewRequest cannot parse
MalformedURL == "http://cli\n"

URLParses(u) == u # MalformedURL

\* command lines: which of -url/-user/-pass are given, which of
\* -email-to/-smtp-host/-smtp-user, and the remaining flags
RequiredFlagChoices ==
    { [url |-> u, user |-> n, pass |-> n] :
        u \in {"", "https://cli"}, n \in {"", "cli-secret"} }

EmailFlagChoices ==
    [emailTo : {"", "to@cli"}, smtpHost : {"", "smtp.cli"}, smtpUser : {"", "user@cli"}]

PlainFlags ==
    [debug |-> FALSE, print |-> FALSE, smtpPort |-> DefaultSmtpPort,
     smtpPass |-> "", smtpFrom |-> ""]

OtherFlagChoices ==
    { [PlainFlags EXCEPT !.debug = TRUE],
      [PlainFlags EXCEPT !.smtpPort = 0],
      [PlainFlags EXCEPT !.print = TRUE, !.smtpPort = 25,
                         !.smtpPass = "cli-smtp-secret", !.smtpFrom = "from@cli"] }

NoEmailFlags == [emailTo |-> "", smtpHost |-> "", smtpUser |-> ""]

AllEmailFlags == [emailTo |-> "to@cli", smtpHost |-> "smtp.cli", smtpUser |-> "user@cli"]

\* every choice of required and email flags with the other flags left alone,
\* each other-flag choice with no and with all email flags, and one command
\* line whose -url does not parse
CommandLines ==
    { r @@ e @@ PlainFlags : r \in RequiredFlagChoices, e \in EmailFlagChoices }
    \cup { r @@ e @@ o : r \in RequiredFlagChoices, e \in {NoEmailFlags, AllEmailFlags},
                         o \in OtherFlagChoices }
    \cup { [FlagDefaults EXCEPT !.url = MalformedURL, !.user = "cli-secret",
                                !.pass = "cli-secret"] }

EnvKeys == {"BASE_URL", "LOGIN_NAME", "PASSWORD", "EMAIL_TO", "SMTP_HOST",
            "SMTP_PORT", "SMTP_USER", "SMTP_PASS", "SMTP_FROM"}

\* os.Getenv of an unset variable is ""; SMTP_PORT is scanned, so it is text
Unset(k) == IF k = "SMTP_PORT" THEN <<>> ELSE ""

EmptyEnv == [k \in EnvKeys |-> Unset(k)]

FullEnvFile ==
    [BASE_URL |-> "https://env", LOGIN_NAME |-> "env-secret", PASSWORD |-> "env-secret",
     EMAIL_TO |-> "to@env", SMTP_HOST |-> "smtp.env", SMTP_PORT |-> <<"4","6","5">>,
     SMTP_USER |-> "user@env", SMTP_PASS |-> "env-smtp-secret", SMTP_FROM |-> "from@env"]

RequiredOnlyEnvFile ==
    [EmptyEnv EXCEPT !.BASE_URL = "https://env", !.LOGIN_NAME = "env-secret",
                     !.PASSWORD = "env-secret"]

EmailOnlyEnvFile ==
    [EmptyEnv EXCEPT !.EMAIL_TO = "to@env", !.SMTP_HOST = "smtp.env",
                     !.SMTP_PORT = <<"t","l","s">>]

\* what os.Stat and godotenv.Load find at the -config path
ConfigFiles ==
    { [exists |-> FALSE, parses |-> FALSE, vars |-> EmptyEnv],
      [exists |-> TRUE, parses |-> FALSE, vars |-> EmptyEnv] }
    \cup { [exists |-> TRUE, parses |-> TRUE, vars |-> v] :
             v \in {FullEnvFile, RequiredOnlyEnvFile, EmailOnlyEnvFile} }

\* godotenv.Load: variables already in the environment are not overridden
godotenvLoad(e, fileVars) ==
    [k \in EnvKeys |-> IF e[k] = Unset(k) THEN fileVars[k] ELSE e[k]]

IsDigit(c) == \E i \in 1..Len(DigitChars) : DigitChars[i] = c

DigitValue(c) == (CHOOSE i \in 1..Len(DigitChars) : DigitChars[i] = c) - 1

RECURSIVE ScanDigits(_, _, _)
\* the value of the longest run of digits of s from position i, given the
\* value acc read so far
ScanDigits(s, i, acc) ==
    IF i > Len(s) \/ ~IsDigit(s[i]) THEN acc
    ELSE ScanDigits(s, i + 1, 10 * acc + DigitValue(s[i]))

\* fmt.Sscanf(val, "%d", &num): an optional sign, then at least one digit
Sscanf_d(val) ==
    LET signed == Len(val) > 0 /\ val[1] \in {"+", "-"}
        start == IF signed THEN 2 ELSE 1
        ok == start <= Len(val) /\ IsDigit(val[start])
        mag == IF ok THEN ScanDigits(val, start, 0) ELSE 0
    IN  [err |-> ~ok, num |-> IF signed /\ val[1] = "-" THEN -mag ELSE mag]

envToInt(e, key, defaultVal) ==
    LET val == e[key]
    IN  IF val = <<>> THEN defaultVal
        ELSE IF Sscanf_d(val).err THEN defaultVal
        ELSE Sscanf_d(val).num

Init ==
    /\ pc = "start"
    /\ exitCode = -1
    /\ baseURL = FlagDefaults.url
    /\ loginName = FlagDefaults.user
    /\ password = FlagDefaults.pass
    /\ debugMode = FlagDefaults.debug
    /\ printMode = FlagDefaults.print
    /\ emailRecipient = FlagDefaults.emailTo
    /\ smtpHost = FlagDefaults.smtpHost
    /\ smtpPort = FlagDefaults.smtpPort
    /\ smtpUsername = FlagDefaults.smtpUser
    /\ smtpPassword = FlagDefaults.smtpPass
    /\ smtpSender = FlagDefaults.smtpFrom
    /\ env = EmptyEnv
    /\ configFile \in ConfigFiles
    /\ authToken = ""
    /\ accounts = <<>>
    /\ assets = <<>>
    /\ liabilities = <<>>
    /\ files = [f \in {"assets.csv", "liabilities.csv"} |-> [exists |-> FALSE, rows |-> <<>>, text |-> <<>>]]
    /\ htmlContent = [summary |-> {}, assetTable |-> NoAccountsFound,
                      liabilityTable |-> NoAccountsFound]
    /\ stdout = <<>>
    /\ logged = <<>>
    /\ effects = <<>>
    /\ responses = <<>>

\* a plausible slip: the message is logged and the process exits with 0
Fatal_exitZero(msg) ==
    /\ logged' = Append(logged, Say(msg))
    /\ pc' = "exit"
    /\ exitCode' = 0

\* log.Fatal / log.Fatalf: the message, then os.Exit(1)
Fatal(msg) ==
    /\ logged' = Append(logged, Say(msg))
    /\ pc' = "exit"
    /\ exitCode' = 1

\* flag.Parse()
ParseFlags ==
    /\ pc = "start"
    /\ \E cl \in CommandLines :
        /\ baseURL' = cl.url
        /\ loginName' = cl.user
        /\ password' = cl.pass
        /\ debugMode' = cl.debug
        /\ printMode' = cl.print
        /\ emailRecipient' = cl.emailTo
        /\ smtpHost' = cl.smtpHost
        /\ smtpPort' = cl.smtpPort
        /\ smtpUsername' = cl.smtpUser
        /\ smtpPassword' = cl.smtpPass
        /\ smtpSender' = cl.smtpFrom
    /\ pc' = "parsed"
    /\ UNCHANGED <<exitCode, env, configFile, dataVars, ioVars>>

\* the settings after "Load values from env if not set by flags"
mergeConfig(cur, e) ==
    [url |-> IF cur.url = "" THEN e.BASE_URL ELSE cur.url,
     user |-> IF cur.user = "" THEN e.LOGIN_NAME ELSE cur.user,
     pass |-> IF cur.pass = "" THEN e.PASSWORD ELSE cur.pass,
     emailTo |-> IF cur.emailTo = "" THEN e.EMAIL_TO ELSE cur.emailTo,
     smtpHost |-> IF cur.smtpHost = "" THEN e.SMTP_HOST ELSE cur.smtpHost,
     smtpPort |-> IF cur.smtpPort = 0 THEN envToInt(e, "SMTP_PORT", 587)
                  ELSE cur.smtpPort,
     smtpUser |-> IF cur.smtpUser = "" THEN e.SMTP_USER ELSE cur.smtpUser,
     smtpPass |-> IF cur.smtpPass = "" THEN e.SMTP_PASS ELSE cur.smtpPass,
     smtpFrom |-> IF cur.smtpFrom = "" THEN e.SMTP_FROM ELSE cur.smtpFrom]

\* the settings as one record
Settings ==
    [url |-> baseURL, user |-> loginName, pass |-> password,
     emailTo |-> emailRecipient, smtpHost |-> smtpHost, smtpPort |-> smtpPort,
     smtpUser |-> smtpUsername, smtpPass |-> smtpPassword, smtpFrom |-> smtpSender]

SetSettings(m) ==
    /\ baseURL' = m.url
    /\ loginName' = m.user
    /\ password' = m.pass
    /\ emailRecipient' = m.emailTo
    /\ smtpHost' = m.smtpHost
    /\ smtpPort' = m.smtpPort
    /\ smtpUsername' = m.smtpUser
    /\ smtpPassword' = m.smtpPass
    /\ smtpSender' = m.smtpFrom

\* main: "Load from config file (.env) if command-line args are missing"
LoadConfig ==
    /\ pc = "parsed"
    /\ UNCHANGED <<debugMode, printMode, configFile, dataVars, files, effects, responses>>
    /\ IF baseURL = "" \/ loginName = "" \/ password = ""
       THEN LET file == configFile
            IN
              IF ~file.exists
              THEN /\ logged' = Append(logged, Say("No .env file found"))
                   /\ pc' = "loaded"
                   /\ UNCHANGED <<exitCode, baseURL, loginName, password,
                                  emailRecipient, smtpHost, smtpPort, smtpUsername,
                                  smtpPassword, smtpSender, env, stdout>>
              ELSE IF ~file.parses
              THEN /\ stdout' = Append(stdout, Say("Loading configuration"))
                   /\ Fatal("Failed to load config file")
                   /\ UNCHANGED <<baseURL, loginName, password,
                                  emailRecipient, smtpHost, smtpPort, smtpUsername,
                                  smtpPassword, smtpSender, env>>
              ELSE /\ stdout' = Append(stdout, Say("Loading configuration"))
                   /\ env' = godotenvLoad(env, file.vars)
                   /\ SetSettings(mergeConfig(Settings, env'))
                   /\ pc' = "loaded"
                   /\ UNCHANGED <<exitCode, logged>>
       ELSE /\ pc' = "loaded"
            /\ UNCHANGED <<exitCode, baseURL, loginName, password,
                           emailRecipient, smtpHost, smtpPort, smtpUsername,
                           smtpPassword, smtpSender, env, stdout, logged>>

\* a plausible slip: only the base URL is required
missingRequired_urlOnly(url, user, pass) == url = ""

\* main: "Validate essential config"
missingRequired(url, user, pass) == url = "" \/ user = "" \/ pass = ""

ValidateConfig ==
    /\ pc = "loaded"
    /\ UNCHANGED <<cfgVars, env, configFile, dataVars, files, effects, responses>>
    /\ IF missingRequired(baseURL, loginName, password)
       THEN /\ stdout' = Append(stdout, Say("Usage"))
            /\ Fatal("Missing required API flags or .env values")
       ELSE /\ stdout' = Append(stdout, Say("Attempting login"))
            /\ pc' = "validated"
            /\ UNCHANGED <<exitCode, logged>>

-----------------------------------------------------------------------------
(* Accounts and server responses *)

USD == <<"U","S","D">>

Account(id, currency, balance, isAsset, isLiability) ==
    [ID |-> id, Name |-> "acct-" \o id, Currency |-> currency, Balance |-> balance,
     Category |-> IF isAsset THEN 1 ELSE 3, IsAsset |-> isAsset,
     IsLiability |-> isLiability, Comment |-> <<>>]

\* the accounts the API serves in the pipeline specification
PipelineAccounts ==
    { Account("1", USD, 1050, TRUE, FALSE),
      Account("2", USD, -250, FALSE, TRUE),
      Account("3", <<"j","p","y">>, 500, FALSE, FALSE) }

SeqsUpTo(S, n) == UNION { [1..k -> S] : k \in 0..n }

\* the lists of at most n accounts of S, each account at most once: the
\* server lists an account once
ListsOf(S, n) == { l \in SeqsUpTo(S, n) : \A i, j \in 1..Len(l) : l[i] = l[j] => i = j }

AccountLists == ListsOf(PipelineAccounts, MaxListLen)

HTTPStatusOK == 200

\* what client.Do and the body give for POST /api/authorize.json
AuthResponses ==
    { [transport |-> FALSE, status |-> 0, decodes |-> FALSE, token |-> ""] }
    \cup { [transport |-> TRUE, status |-> st, decodes |-> d, token |-> t] :
             st \in {HTTPStatusOK, 401}, d \in BOOLEAN, t \in {"", "abc"} }

\* what client.Do and the body give for GET /api/v1/accounts/list.json;
\* successField is the body's "success" member, which may be absent
ListResponses ==
    { [transport |-> FALSE, status |-> 0, reads |-> FALSE, decodes |-> FALSE,
       successField |-> "absent", result |-> <<>>] }
    \cup { [transport |-> TRUE, status |-> HTTPStatusOK, reads |-> TRUE, decodes |-> TRUE,
            successField |-> "true", result |-> l] : l \in AccountLists }
    \cup { [transport |-> TRUE, status |-> st, reads |-> r, decodes |-> d,
            successField |-> su, result |-> <<Account("1", USD, 1050, TRUE, FALSE)>>] :
             st \in {HTTPStatusOK, 500}, r \in BOOLEAN, d \in BOOLEAN,
             su \in {"true", "false", "absent"} }

\* json.Unmarshal into AccountListResponse: a missing member leaves false
decodedSuccess(resp) == resp.successField = "true"

Call(op, arg) == [op |-> op, arg |-> arg]

\* getAuthToken against the response the server gives: the returned token
\* and error, the requests issued and what debug mode printed
getAuthToken_ignoreStatus(resp) ==
    IF ~URLParses(baseURL)
    THEN [token |-> "", err |-> "error creating auth request", calls |-> <<>>, out |-> <<>>]
    ELSE LET calls == <<Call("auth", loginName)>>
             dumpReq == IF debugMode THEN <<Say("DEBUG: Auth Request")>> ELSE <<>>
             dumpResp == IF debugMode THEN <<Say("DEBUG: Auth Response")>> ELSE <<>>
         IN  IF ~resp.transport
             THEN [token |-> "", err |-> "error executing auth request",
                   calls |-> calls, out |-> dumpReq]
             ELSE IF ~resp.decodes
             THEN [token |-> "", err |-> "error decoding auth response",
                   calls |-> calls, out |-> dumpReq \o dumpResp]
             ELSE [token |-> resp.token, err |-> "",
                   calls |-> calls, out |-> dumpReq \o dumpResp]

\* a plausible slip: dumping the response in debug mode drains its body, so
\* the decoding that follows fails
getAuthTokenIn_dumpDrainsBody(debug, resp) ==
    IF ~URLParses(baseURL)
    THEN [token |-> "", err |-> "error creating auth request", calls |-> <<>>, out |-> <<>>]
    ELSE LET calls == <<Call("auth", loginName)>>
             dumpReq == IF debug THEN <<Say("DEBUG: Auth Request")>> ELSE <<>>
             dumpResp == IF debug THEN <<Say("DEBUG: Auth Response")>> ELSE <<>>
         IN  IF ~resp.transport
             THEN [token |-> "", err |-> "error executing auth request",
                   calls |-> calls, out |-> dumpReq]
             ELSE IF resp.status # HTTPStatusOK
             THEN [token |-> "", err |-> "authorization failed with status code",
                   calls |-> calls, out |-> dumpReq \o dumpResp]
             ELSE IF ~resp.decodes \/ debug
             THEN [token |-> "", err |-> "error decoding auth response",
                   calls |-> calls, out |-> dumpReq \o dumpResp]
             ELSE [token |-> resp.token, err |-> "",
                   calls |-> calls, out |-> dumpReq \o dumpResp]

\* a plausible slip: a request that could not be executed is made again
getAuthTokenIn_retry(debug, resp) ==
    IF ~URLParses(baseURL)
    THEN [token |-> "", err |-> "error creating auth request", calls |-> <<>>, out |-> <<>>]
    ELSE LET calls == <<Call("auth", loginName)>>
             dumpReq == IF debug THEN <<Say("DEBUG: Auth Request")>> ELSE <<>>
             dumpResp == IF debug THEN <<Say("DEBUG: Auth Response")>> ELSE <<>>
         IN  IF ~resp.transport
             THEN [token |-> "", err |-> "error executing auth request",
                   calls |-> calls \o calls, out |-> dumpReq]
             ELSE IF resp.status # HTTPStatusOK
             THEN [token |-> "", err |-> "authorization failed with status code",
                   calls |-> calls, out |-> dumpReq \o dumpResp]
             ELSE IF ~resp.decodes
             THEN [token |-> "", err |-> "error decoding auth response",
                   calls |-> calls, out |-> dumpReq \o dumpResp]
             ELSE [token |-> resp.token, err |-> "",
                   calls |-> calls, out |-> dumpReq \o dumpResp]

\* a plausible slip: a response without a token is an error
getAuthTokenIn_rejectsEmptyToken(debug, resp) ==
    IF ~URLParses(baseURL)
    THEN [token |-> "", err |-> "error creating auth request", calls |-> <<>>, out |-> <<>>]
    ELSE LET calls == <<Call("auth", loginName)>>
             dumpReq == IF debug THEN <<Say("DEBUG: Auth Request")>> ELSE <<>>
             dumpResp == IF debug THEN <<Say("DEBUG: Auth Response")>> ELSE <<>>
         IN  IF ~resp.transport
             THEN [token |-> "", err |-> "error executing auth request",
                   calls |-> calls, out |-> dumpReq]
             ELSE IF resp.status # HTTPStatusOK
             THEN [token |-> "", err |-> "authorization failed with status code",
                   calls |-> calls, out |-> dumpReq \o dumpResp]
             ELSE IF ~resp.decodes
             THEN [token |-> "", err |-> "error decoding auth response",
                   calls |-> calls, out |-> dumpReq \o dumpResp]
             ELSE IF resp.token = ""
             THEN [token |-> "", err |-> "no token in auth response",
                   calls |-> calls, out |-> dumpReq \o dumpResp]
             ELSE [token |-> resp.token, err |-> "",
                   calls |-> calls, out |-> dumpReq \o dumpResp]

\* getAuthToken with the -debug flag as debug
getAuthTokenIn(debug, resp) ==
    IF ~URLParses(baseURL)
    THEN [token |-> "", err |-> "error creating auth request", calls |-> <<>>, out |-> <<>>]
    ELSE LET calls == <<Call("auth", loginName)>>
             dumpReq == IF debug THEN <<Say("DEBUG: Auth Request")>> ELSE <<>>
             dumpResp == IF debug THEN <<Say("DEBUG: Auth Response")>> ELSE <<>>
         IN  IF ~resp.transport
             THEN [token |-> "", err |-> "error executing auth request",
                   calls |-> calls, out |-> dumpReq]
             ELSE IF resp.status # HTTPStatusOK
             THEN [token |-> "", err |-> "authorization failed with status code",
                   calls |-> calls, out |-> dumpReq \o dumpResp]
             ELSE IF ~resp.decodes
             THEN [token |-> "", err |-> "error decoding auth response",
                   calls |-> calls, out |-> dumpReq \o dumpResp]
             ELSE [token |-> resp.token, err |-> "",
                   calls |-> calls, out |-> dumpReq \o dumpResp]

getAuthToken(resp) == getAuthTokenIn(debugMode, resp)

\* main, step 1
Authenticate ==
    /\ pc = "validated"
    /\ UNCHANGED <<cfgVars, env, configFile, accounts, assets, liabilities, htmlContent, files>>
    /\ \E resp \in AuthResponses :
         LET r == getAuthToken(resp)
         IN  /\ effects' = effects \o r.calls
             /\ responses' = IF r.calls = <<>> THEN responses ELSE Append(responses, resp)
             /\ IF r.err # ""
                THEN /\ stdout' = stdout \o r.out
                     /\ Fatal("Failed to get authentication token")
                     /\ UNCHANGED authToken
                ELSE /\ stdout' = stdout \o r.out \o <<Say("Successfully retrieved token")>>
                     /\ authToken' = r.token
                     /\ pc' = "authed"
                     /\ UNCHANGED <<exitCode, logged>>

\* a plausible slip: the success field is not looked at
fetchAccountList_ignoreSuccess(token, resp) ==
    IF ~URLParses(baseURL)
    THEN [accounts |-> <<>>, err |-> "error creating list request", calls |-> <<>>,
          out |-> <<>>]
    ELSE LET calls == <<Call("list", token)>>
             dumpReq == IF debugMode THEN <<Say("DEBUG: List Request")>> ELSE <<>>
             dumpResp == IF debugMode THEN <<Say("DEBUG: List Response")>> ELSE <<>>
             failed(e, o) == [accounts |-> <<>>, err |-> e, calls |-> calls, out |-> o]
         IN  IF ~resp.transport
             THEN failed("error executing list request", dumpReq)
             ELSE IF resp.status # HTTPStatusOK
             THEN failed("account list retrieval failed with status code", dumpReq \o dumpResp)
             ELSE IF ~resp.reads
             THEN failed("error reading list response body", dumpReq \o dumpResp)
             ELSE IF ~resp.decodes
             THEN failed("error decoding account list response", dumpReq \o dumpResp)
             ELSE [accounts |-> resp.result, err |-> "", calls |-> calls,
                   out |-> dumpReq \o dumpResp]

\* fetchAccountList with the -debug flag as debug
fetchAccountListIn(debug, token, resp) ==
    IF ~URLParses(baseURL)
    THEN [accounts |-> <<>>, err |-> "error creating list request", calls |-> <<>>,
          out |-> <<>>]
    ELSE LET calls == <<Call("list", token)>>
             dumpReq == IF debug THEN <<Say("DEBUG: List Request")>> ELSE <<>>
             dumpResp == IF debug THEN <<Say("DEBUG: List Response")>> ELSE <<>>
             failed(e, o) == [accounts |-> <<>>, err |-> e, calls |-> calls, out |-> o]
         IN  IF ~resp.transport
             THEN failed("error executing list request", dumpReq)
             ELSE IF resp.status # HTTPStatusOK
             THEN failed("account list retrieval failed with status code", dumpReq \o dumpResp)
             ELSE IF ~resp.reads
             THEN failed("error reading list response body", dumpReq \o dumpResp)
             ELSE IF ~resp.decodes
             THEN failed("error decoding account list response", dumpReq \o dumpResp)
             ELSE IF ~decodedSuccess(resp)
             THEN failed("account list API returned success: false", dumpReq \o dumpResp)
             ELSE [accounts |-> resp.result, err |-> "", calls |-> calls,
                   out |-> dumpReq \o dumpResp]

fetchAccountList(token, resp) == fetchAccountListIn(debugMode, token, resp)

\* main, step 2
FetchAccounts ==
    /\ pc = "authed"
    /\ UNCHANGED <<cfgVars, env, configFile, authToken, assets, liabilities, htmlContent, files>>
    /\ \E resp \in ListResponses :
         LET r == fetchAccountList(authToken, resp)
         IN  /\ effects' = effects \o r.calls
             /\ responses' = IF r.calls = <<>> THEN responses ELSE Append(responses, resp)
             /\ stdout' = stdout \o r.out
             /\ IF r.err # ""
                THEN /\ Fatal("Failed to fetch account list")
                     /\ UNCHANGED accounts
                ELSE /\ accounts' = r.accounts
                     /\ pc' = "fetched"
                     /\ UNCHANGED <<exitCode, logged>>

\* main, step 3
Separate ==
    /\ pc = "fetched"
    /\ assets' = SeparateAccounts(accounts).assets
    /\ liabilities' = SeparateAccounts(accounts).liabilities
    /\ pc' = "separated"
    /\ UNCHANGED <<exitCode, cfgVars, env, configFile, authToken, accounts, htmlContent, ioVars>>

-----------------------------------------------------------------------------
(* Export, report and email steps *)

\* what os.Create and csv.Writer.WriteAll do
FileOutcomes == {"create fails", "write fails", "written"}

\* exportToCSV(filename, accts) under a file-system outcome; kept is how many
\* rows reached the file when the write failed.  The result is the file
\* afterwards and what was printed and logged; the function always returns
\* to its caller.
exportToCSV_fatalOnCreate(filename, accts, outcome, kept) ==
    LET rows == csvData(accts)
        console == IF printMode THEN <<Line("Console Output", filename, 0, rows)>>
                   ELSE <<>>
        wrote == <<Line("Successfully wrote", filename, Len(accts), <<>>)>>
    IN  CASE outcome = "create fails" ->
               [file |-> files[filename], out |-> <<>>,
                log |-> <<Line("Could not create file", filename, 0, <<>>)>>, returns |-> FALSE]
          [] outcome = "write fails" ->
               [file |-> [exists |-> TRUE, rows |-> SubSeq(rows, 1, kept),
                         text |-> csvWriteAll(rows, kept)],
                out |-> wrote \o console,
                log |-> <<Line("Error writing data", filename, 0, <<>>)>>, returns |-> TRUE]
          [] OTHER ->
               [file |-> [exists |-> TRUE, rows |-> rows,
                         text |-> csvWriteAll(rows, Len(rows))],
                out |-> wrote \o console,
                log |-> <<>>, returns |-> TRUE]

exportToCSV(filename, accts, outcome, kept) ==
    LET rows == csvData(accts)
        console == IF printMode THEN <<Line("Console Output", filename, 0, rows)>>
                   ELSE <<>>
        wrote == <<Line("Successfully wrote", filename, Len(accts), <<>>)>>
    IN  CASE outcome = "create fails" ->
               [file |-> files[filename], out |-> <<>>,
                log |-> <<Line("Could not create file", filename, 0, <<>>)>>, returns |-> TRUE]
          [] outcome = "write fails" ->
               [file |-> [exists |-> TRUE, rows |-> SubSeq(rows, 1, kept),
                         text |-> csvWriteAll(rows, kept)],
                out |-> wrote \o console,
                log |-> <<Line("Error writing data", filename, 0, <<>>)>>, returns |-> TRUE]
          [] OTHER ->
               [file |-> [exists |-> TRUE, rows |-> rows,
                         text |-> csvWriteAll(rows, Len(rows))],
                out |-> wrote \o console,
                log |-> <<>>, returns |-> TRUE]

Export(filename, accts, from, to) ==
    /\ pc = from
    /\ UNCHANGED <<cfgVars, env, configFile, dataVars>>
    /\ \E outcome \in FileOutcomes : \E kept \in 0..Len(accts) :
         LET r == exportToCSV(filename, accts, outcome, kept)
         IN  /\ (outcome # "write fails" => kept = 0)
             /\ effects' = Append(effects, Call("create", filename))
             /\ UNCHANGED responses
             /\ files' = [files EXCEPT ![filename] = r.file]
             /\ stdout' = stdout \o r.out
             /\ IF r.returns
                THEN /\ logged' = logged \o r.log
                     /\ pc' = to
                     /\ UNCHANGED exitCode
                ELSE /\ logged' = logged \o r.log
                     /\ pc' = "exit"
                     /\ exitCode' = 1

\* main, step 4: exportToCSV("assets.csv", assets)
ExportAssets == Export("assets.csv", assets, "separated", "assetsExported")

\* a plausible slip: the two export calls are swapped
ExportLiabilities_first ==
    Export("liabilities.csv", liabilities, "separated", "assetsExported")

\* main, step 4: exportToCSV("liabilities.csv", liabilities)
ExportLiabilities == Export("liabilities.csv", liabilities, "assetsExported", "exported")

\* main: htmlContent := generateHTMLReport(assets, liabilities)
GenerateReport ==
    /\ pc = "exported"
    /\ htmlContent' = generateHTMLReport(assets, liabilities)
    /\ pc' = "reported"
    /\ UNCHANGED <<exitCode, cfgVars, env, configFile, authToken, accounts, assets, liabilities,
                   ioVars>>

\* main, step 5: the condition under which sendReportEmail is called
\* a plausible slip: the SMTP username is not required
emailConfigured_noUser(recipient, host, username) == recipient # "" /\ host # ""

\* a plausible slip: an explicit sender is required as well
emailConfigured_needsSender(recipient, host, username) ==
    recipient # "" /\ host # "" /\ username # "" /\ smtpSender # ""

emailConfigured(recipient, host, username) ==
    recipient # "" /\ host # "" /\ username # ""

\* sendReportEmail: the message handed to gomail's DialAndSend
sendReportEmail(htmlBody) ==
    LET sender == IF smtpSender = "" THEN smtpUsername ELSE smtpSender
    IN  [op |-> "smtp", arg |-> emailRecipient, from |-> sender, host |-> smtpHost,
         port |-> smtpPort, username |-> smtpUsername, password |-> smtpPassword,
         subject |-> "Financial Account Balance Report", body |-> htmlBody]

\* a plausible slip: a failed send is logged and the run carries on
EmailStep_failureLogged ==
    /\ pc = "reported"
    /\ UNCHANGED <<cfgVars, env, configFile, dataVars, files, responses>>
    /\ IF emailConfigured(emailRecipient, smtpHost, smtpUsername)
       THEN \E delivered \in BOOLEAN :
              /\ effects' = Append(effects, sendReportEmail(htmlContent))
              /\ IF delivered
                 THEN /\ stdout' = Append(stdout, Say("Email report successfully sent"))
                      /\ pc' = "returned"
                      /\ exitCode' = 0
                      /\ UNCHANGED logged
                 ELSE /\ logged' = Append(logged, Say("Failed to send email"))
                      /\ pc' = "returned"
                      /\ exitCode' = 0
                      /\ UNCHANGED stdout
       ELSE /\ logged' = IF emailRecipient # ""
                         THEN Append(logged, Say("Email flags missing. Not sending email."))
                         ELSE logged
            /\ pc' = "returned"
            /\ exitCode' = 0
            /\ UNCHANGED <<stdout, effects>>

\* main, step 5, and the return from main
EmailStep ==
    /\ pc = "reported"
    /\ UNCHANGED <<cfgVars, env, configFile, dataVars, files, responses>>
    /\ IF emailConfigured(emailRecipient, smtpHost, smtpUsername)
       THEN \E delivered \in BOOLEAN :
              /\ effects' = Append(effects, sendReportEmail(htmlContent))
              /\ IF delivered
                 THEN /\ stdout' = Append(stdout, Say("Email report successfully sent"))
                      /\ pc' = "returned"
                      /\ exitCode' = 0
                      /\ UNCHANGED logged
                 ELSE /\ Fatal("Failed to send email")
                      /\ UNCHANGED stdout
       ELSE /\ logged' = IF emailRecipient # ""
                         THEN Append(logged, Say("Email flags missing. Not sending email."))
                         ELSE logged
            /\ pc' = "returned"
            /\ exitCode' = 0
            /\ UNCHANGED <<stdout, effects>>

Next ==
    \/ ParseFlags
    \/ LoadConfig
    \/ ValidateConfig
    \/ Authenticate
    \/ FetchAccounts
    \/ Separate
    \/ ExportAssets
    \/ ExportLiabilities
    \/ GenerateReport
    \/ EmailStep

Spec == Init /\ [][Next]_vars

-----------------------------------------------------------------------------
(* The account-handling steps on their own, over richer account lists *)

\* main after a successful fetch of accts: -url, -user and -pass were given
\* on the command line, no email flag, and the token "abc" was served
AfterFetch(accts, print) ==
    /\ pc = "fetched"
    /\ exitCode = -1
    /\ baseURL = "https://cli"
    /\ loginName = "cli-secret"
    /\ password = "cli-secret"
    /\ debugMode = FALSE
    /\ printMode = print
    /\ emailRecipient = ""
    /\ smtpHost = ""
    /\ smtpPort = DefaultSmtpPort
    /\ smtpUsername = ""
    /\ smtpPassword = ""
    /\ smtpSender = ""
    /\ env = EmptyEnv
    /\ configFile = [exists |-> FALSE, parses |-> FALSE, vars |-> EmptyEnv]
    /\ authToken = "abc"
    /\ accounts = accts
    /\ assets = <<>>
    /\ liabilities = <<>>
    /\ files = [f \in {"assets.csv", "liabilities.csv"} |-> [exists |-> FALSE, rows |-> <<>>, text |-> <<>>]]
    /\ htmlContent = [summary |-> {}, assetTable |-> NoAccountsFound,
                      liabilityTable |-> NoAccountsFound]
    /\ stdout = <<Say("Attempting login"), Say("Successfully retrieved token")>>
    /\ logged = <<>>
    /\ effects = <<Call("auth", "cli-secret"), Call("list", "abc")>>
    /\ responses = <<[transport |-> TRUE, status |-> HTTPStatusOK, decodes |-> TRUE,
                      token |-> "abc"],
                     [transport |-> TRUE, status |-> HTTPStatusOK, reads |-> TRUE,
                      decodes |-> TRUE, successField |-> "true", result |-> accts]>>

KWD == <<"K","W","D">>

RichAccounts ==
    { Account("a1", USD, 100000, TRUE, FALSE),
      Account("a2", USD, -5000, TRUE, FALSE),
      Account("a3", <<"u","s","d">>, 1050, TRUE, FALSE),
      Account("a4", KWD, 12345, TRUE, FALSE),
      Account("l1", USD, -20000, FALSE, TRUE),
      Account("l2", USD, -105000, FALSE, TRUE),
      Account("l3", <<"J","P","Y">>, -500, FALSE, TRUE),
      Account("b1", USD, 999, TRUE, TRUE),
      Account("n1", <<"E","U","R">>, 100, FALSE, FALSE) }

InitAccounts ==
    \E accts \in ListsOf(RichAccounts, MaxAccounts) : AfterFetch(accts, FALSE)

NextAccounts ==
    \/ Separate
    \/ ExportAssets
    \/ ExportLiabilities
    \/ GenerateReport

SpecAccounts == InitAccounts /\ [][NextAccounts]_vars

\* currency codes as the API may spell them, known and unknown
CurrencyCodes ==
    { USD, <<"u","s","d">>, <<"U","s","d">>, <<"J","P","Y">>, <<"j","p","y">>,
      KWD, <<"k","w","d">>, <<"O","m","r">>, <<"E","U","R">>, <<"X","Y","Z">>,
      <<"x","b","t">>, <<>> }

Balances == (-MaxBal..MaxBal) \cup {500, 999, 1050, 12345, -999, -12345, 100, -100, 1000}

InitFormat ==
    \E b \in Balances : \E c \in CurrencyCodes : \E print \in BOOLEAN :
        AfterFetch(<<Account("1", c, b, TRUE, FALSE)>>, print)

NextFormat ==
    \/ Separate
    \/ ExportAssets

SpecFormat == InitFormat /\ [][NextFormat]_vars

\* free text the API may serve in an account's comment
Comments ==
    << <<>>, <<"a">>, <<"a", ",", "b">>, <<Quote>>, <<"x", "\n", "y">>,
       <<" ", "a">>, <<"a", "\r", "\n">>, <<"\\", ".">>, <<"\n">> >>

CommentIDs == <<"c1", "c2", "c3", "c4", "c5", "c6", "c7", "c8", "c9">>

CommentedAccounts ==
    { [Account(CommentIDs[k], USD, 1050, TRUE, FALSE) EXCEPT !.Comment = Comments[k]] :
        k \in 1..Len(Comments) }
    \cup { [Account("d1", USD, -250, FALSE, TRUE) EXCEPT !.Comment = Comments[3]] }

InitCsv ==
    \E accts \in ListsOf(CommentedAccounts, MaxListLen) : AfterFetch(accts, FALSE)

NextCsv ==
    \/ Separate
    \/ ExportAssets
    \/ ExportLiabilities

SpecCsv == InitCsv /\ [][NextCsv]_vars

\* accounts in a three-decimal currency and in two-decimal ones, on both
\* sides of the balance sheet
SummaryAccounts ==
    { Account("k1", KWD, 12344, TRUE, FALSE),
      Account("k2", KWD, -1004, FALSE, TRUE),
      Account("u1", USD, 100000, TRUE, FALSE),
      Account("u2", USD, -105050, FALSE, TRUE),
      Account("j1", <<"J","P","Y">>, 500, TRUE, FALSE),
      Account("j2", <<"J","P","Y">>, -120, FALSE, TRUE) }

InitSummary ==
    \E accts \in ListsOf(SummaryAccounts, MaxAccounts) : AfterFetch(accts, FALSE)

SpecSummary == InitSummary /\ [][NextAccounts]_vars

\* accounts whose currency codes differ only in letter case, for the
\* grouping of the totals
CaseAccounts ==
    { Account("c1", USD, 100000, TRUE, FALSE),
      Account("c2", <<"u","s","d">>, 1050, TRUE, FALSE),
      Account("c3", USD, -20000, FALSE, TRUE),
      Account("c4", <<"u","s","d">>, -300, FALSE, TRUE),
      Account("c5", <<"k","w","d">>, 12345, TRUE, FALSE) }

InitCase ==
    \E accts \in ListsOf(CaseAccounts, MaxAccounts) : AfterFetch(accts, FALSE)

SpecCase == InitCase /\ [][NextAccounts]_vars

-----------------------------------------------------------------------------
(* Claims *)

Range(q) == {q[i] : i \in 1..Len(q)}

Separated == pc \in {"separated", "assetsExported", "exported", "reported", "returned"}

\* the elements of q that belong to S, in q's order
Restrict(q, S) == SelectSeq(q, LAMBDA a : a \in S)

\* C1: once the fetched accounts are separated, no account is in both
\* buckets, an account with neither flag is in no bucket, every bucket member
\* is an input account, and each bucket lists its accounts in input order
C1_PartitionDisjointOrdered ==
    Separated =>
        /\ Range(assets) \cap Range(liabilities) = {}
        /\ \A i \in 1..Len(accounts) :
             (~accounts[i].IsAsset /\ ~accounts[i].IsLiability)
                 => accounts[i] \notin Range(assets) \cup Range(liabilities)
        /\ Range(assets) \cup Range(liabilities) \subseteq Range(accounts)
        /\ assets = Restrict(accounts, Range(assets))
        /\ liabilities = Restrict(accounts, Range(liabilities))

C1_Witness ==
    /\ pc = "separated"
    /\ Len(accounts) = 3
    /\ Len(assets) = 2
    /\ assets[1] # assets[2]
    /\ ~accounts[2].IsAsset /\ ~accounts[2].IsLiability

\* two codes that differ at most in letter case
EqualFold(a, b) ==
    /\ Len(a) = Len(b)
    /\ \A i \in 1..Len(a) :
         \/ a[i] = b[i]
         \/ \E k \in 1..Len(LowerChars) :
              {a[i], b[i]} = {LowerChars[k], UpperChars[k]}

\* the exponent the claim names: the table's, whatever the case; else 2
ClaimedExponent(code) ==
    IF \E k \in DOMAIN currencyExponents : EqualFold(k, code)
    THEN currencyExponents[CHOOSE k \in DOMAIN currencyExponents : EqualFold(k, code)]
    ELSE 2

RECURSIVE DigitsValue(_, _)
\* the number written by the digits of text, the decimal point skipped
DigitsValue(text, acc) ==
    IF text = <<>> THEN acc
    ELSE IF Head(text) = "." THEN DigitsValue(Tail(text), acc)
    ELSE DigitsValue(Tail(text), 10 * acc + DigitValue(Head(text)))

\* text is balance / 10^e in fixed point with exactly e fractional digits
RendersBalance(text, balance, e) ==
    LET body == IF balance < 0 THEN Tail(text) ELSE text
    IN  /\ balance < 0 => Len(text) > 0 /\ Head(text) = "-"
        /\ \A i \in 1..Len(body) : IsDigit(body[i]) \/ body[i] = "."
        /\ IF e = 0
           THEN \A i \in 1..Len(body) : body[i] # "."
           ELSE /\ Len(body) >= e + 2
                /\ \A i \in 1..Len(body) : (body[i] = ".") <=> (i = Len(body) - e)
        /\ Len(body) >= 1 /\ IsDigit(body[1])
        /\ DigitsValue(body, 0) = Abs(balance)

AssetRows == files["assets.csv"].rows

\* C2: every Balance cell written to assets.csv renders the account's
\* minor-unit balance divided by 10^e with exactly e fractional digits, e
\* being the table exponent of the currency code whatever its letter case
\* and 2 for a code the table lacks; 500 JPY is "500", 12345 KWD is
\* "12.345" and 999 USD is "9.99"
C2_BalanceRendering ==
    \A i \in 1..Len(assets) :
        (i + 1 <= Len(AssetRows)) =>
            LET text == AssetRows[i + 1][4]
                bal == assets[i].Balance
                cur == assets[i].Currency
            IN  /\ RendersBalance(text, bal, ClaimedExponent(cur))
                /\ (bal = 500 /\ cur = <<"J","P","Y">>) => text = <<"5","0","0">>
                /\ (bal = 12345 /\ cur = KWD) => text = <<"1","2",".","3","4","5">>
                /\ (bal = 999 /\ cur = USD) => text = <<"9",".","9","9">>

C2_Witness ==
    /\ pc = "assetsExported"
    /\ Len(AssetRows) = 2
    /\ assets[1].Currency = <<"k","w","d">>
    /\ assets[1].Balance = -999
    /\ AssetRows[2][4] = <<"-","0",".","9","9","9">>

\* the bucket's total for a currency, in thousandths of a major unit
BucketTotal(bucket, currency) ==
    IF currency \in DOMAIN calculateTotalBalances(bucket)
    THEN calculateTotalBalances(bucket)[currency] ELSE 0

\* C3: for every currency of the summary the reported Net Assets is the
\* asset bucket's total plus the liability bucket's total, tagged by sign
C3_NetIsAssetsPlusLiabilities ==
    pc = "reported" =>
        \A entry \in htmlContent.summary :
            LET net == BucketTotal(assets, entry.currency)
                       + BucketTotal(liabilities, entry.currency)
            IN  /\ entry.netAssets = net
                /\ entry.netAssetsClass = IF net >= 0 THEN "positive" ELSE "negative"

Logged(msg) == \E i \in 1..Len(logged) : logged[i].msg = msg

Called(op, arg) == \E i \in 1..Len(effects) : effects[i].op = op /\ effects[i].arg = arg

CallCount(op) == Cardinality({i \in 1..Len(effects) : effects[i].op = op})

NoFileCreated == \A f \in DOMAIN files : ~files[f].exists

\* C4: when the config file is loaded, every setting becomes the flag's
\* value if the flag was given, else the file's value if it has one, else
\* the built-in default
C4_FlagThenFileThenDefault ==
    [][(pc = "parsed" /\ pc' = "loaded" /\ stdout' # stdout) =>
        LET filePort == Sscanf_d(env'.SMTP_PORT)
        IN  /\ baseURL' = IF baseURL # "" THEN baseURL ELSE env'.BASE_URL
            /\ loginName' = IF loginName # "" THEN loginName ELSE env'.LOGIN_NAME
            /\ password' = IF password # "" THEN password ELSE env'.PASSWORD
            /\ emailRecipient' = IF emailRecipient # "" THEN emailRecipient
                                 ELSE env'.EMAIL_TO
            /\ smtpHost' = IF smtpHost # "" THEN smtpHost ELSE env'.SMTP_HOST
            /\ smtpUsername' = IF smtpUsername # "" THEN smtpUsername ELSE env'.SMTP_USER
            /\ smtpPassword' = IF smtpPassword # "" THEN smtpPassword ELSE env'.SMTP_PASS
            /\ smtpSender' = IF smtpSender # "" THEN smtpSender ELSE env'.SMTP_FROM
            /\ smtpPort' = IF smtpPort # 587 THEN smtpPort
                           ELSE IF ~filePort.err THEN filePort.num
                           ELSE 587]_vars

\* C5: a run whose base URL, login name or password is empty after the
\* merge never gets past validation: it makes no request, creates no file,
\* sends no email, and when it has ended it has exited with status 1
C5_MissingConfigIsFatalBeforeNetwork ==
    (pc \notin {"start", "parsed"} /\ (baseURL = "" \/ loginName = "" \/ password = ""))
        => /\ pc \in {"loaded", "exit"}
           /\ pc = "exit" => exitCode = 1
           /\ effects = <<>>
           /\ responses = <<>>
           /\ NoFileCreated

C5_Witness ==
    /\ pc = "exit"
    /\ exitCode = 1
    /\ Logged("Missing required API flags or .env values")
    /\ baseURL # ""
    /\ password = ""
    /\ env.EMAIL_TO # ""

\* C6: the auth call yields its token exactly when the response came with
\* status 200 and a body that decodes; on a transport error, another status
\* or an undecodable body the run ends with status 1 having made the auth
\* request only: no list request, no file, no email
C6_AuthFailureIsFatal ==
    Len(responses) >= 1 =>
        LET r == responses[1]
        IN  IF r.transport /\ r.status = 200 /\ r.decodes
            THEN /\ authToken = r.token
                 /\ ~Logged("Failed to get authentication token")
            ELSE /\ pc = "exit"
                 /\ exitCode = 1
                 /\ Logged("Failed to get authentication token")
                 /\ authToken = ""
                 /\ Len(effects) = 1 /\ effects[1].op = "auth"
                 /\ NoFileCreated

C6_Witness ==
    /\ pc = "exit"
    /\ Len(responses) = 1
    /\ responses[1].transport
    /\ responses[1].status = 401
    /\ responses[1].decodes
    /\ responses[1].token = "abc"

\* C7: the list call yields the accounts exactly when the response came with
\* status 200, a readable body that decodes, and success true; otherwise
\* (success false or absent included) the run ends with status 1 with no
\* file created and no email sent
C7_ListFailureIsFatal ==
    Len(responses) >= 2 =>
        LET r == responses[2]
        IN  IF /\ r.transport /\ r.status = 200 /\ r.reads /\ r.decodes
               /\ r.successField = "true"
            THEN /\ accounts = r.result
                 /\ ~Logged("Failed to fetch account list")
            ELSE /\ pc = "exit"
                 /\ exitCode = 1
                 /\ Logged("Failed to fetch account list")
                 /\ accounts = <<>>
                 /\ CallCount("create") = 0
                 /\ CallCount("smtp") = 0
                 /\ NoFileCreated

C7_Witness ==
    /\ pc = "exit"
    /\ Len(responses) = 2
    /\ responses[2].transport /\ responses[2].status = 200
    /\ responses[2].reads /\ responses[2].decodes
    /\ responses[2].successField = "absent"
    /\ responses[2].result # <<>>

AssetsExportFailed ==
    \E i \in 1..Len(logged) :
        /\ logged[i].file = "assets.csv"
        /\ logged[i].msg \in {"Could not create file", "Error writing data"}

\* C8: after a failed creation or write of assets.csv the error is in the
\* log and the run goes on: it is at or past the export of liabilities.csv,
\* which it has attempted once past it, the report is built, and the run
\* ends, if it has ended, by returning from main or by a failed email send
C8_ExportFailureNotFatal ==
    AssetsExportFailed =>
        /\ pc \in {"assetsExported", "exported", "reported", "returned", "exit"}
        /\ pc = "assetsExported" => ENABLED ExportLiabilities
        /\ pc # "assetsExported" => Called("create", "liabilities.csv")
        /\ pc \in {"reported", "returned", "exit"}
               => htmlContent = generateHTMLReport(assets, liabilities)
        /\ pc = "exit" => Logged("Failed to send email")
        /\ pc = "returned" => exitCode = 0

C8_Witness ==
    /\ pc = "returned"
    /\ AssetsExportFailed
    /\ ~files["assets.csv"].exists
    /\ files["liabilities.csv"].exists
    /\ CallCount("smtp") = 1

\* main has ended at or after its email step
EndedAfterEmailStep ==
    \/ pc = "returned"
    \/ pc = "exit" /\ Called("create", "liabilities.csv")

EmailWarning == "Email flags missing. Not sending email."

Ended == pc \in {"exit", "returned"}

AuthResponseGood(r) == r.transport /\ r.status = 200 /\ r.decodes

ListResponseGood(r) ==
    r.transport /\ r.status = 200 /\ r.reads /\ r.decodes /\ r.successField = "true"

Printed(msg) == \E i \in 1..Len(stdout) : stdout[i].msg = msg

\* C11: the exit status is set exactly when main has ended; a run that ended
\* with required configuration missing, after a failed authentication or
\* after a failed list fetch has a non-zero status; a run that went through
\* the whole pipeline and sent the email or skipped the email step has
\* status 0
C11_ExitStatus ==
    /\ Ended <=> exitCode # -1
    /\ Ended =>
        /\ (baseURL = "" \/ loginName = "" \/ password = "") => exitCode > 0
        /\ (Len(responses) = 1 /\ ~AuthResponseGood(responses[1])) => exitCode > 0
        /\ (Len(responses) = 2 /\ ~ListResponseGood(responses[2])) => exitCode > 0
        /\ (Called("create", "liabilities.csv")
              /\ (CallCount("smtp") = 0 \/ Printed("Email report successfully sent")))
             => exitCode = 0

C11_Witness ==
    /\ pc = "returned"
    /\ exitCode = 0
    /\ CallCount("smtp") = 0
    /\ Logged(EmailWarning)
    /\ AssetsExportFailed

\* the external calls made so far, by kind: the file name for a creation
EffectKinds ==
    [i \in 1..Len(effects) |->
        IF effects[i].op = "create" THEN effects[i].arg ELSE effects[i].op]

PipelineOrder == <<"auth", "list", "assets.csv", "liabilities.csv", "smtp">>

\* C12: the external calls of a run are an initial part of: auth request,
\* list request, creation of assets.csv, creation of liabilities.csv, email
\* send; the list request follows an auth call that returned a token and
\* carries it; the exports follow a successful list call and the
\* separation of its accounts; the email follows both exports and carries
\* the report built from the buckets
C12_PipelineOrder ==
    /\ Len(effects) <= Len(PipelineOrder)
    /\ EffectKinds = SubSeq(PipelineOrder, 1, Len(effects))
    /\ Len(effects) >= 2 =>
         /\ AuthResponseGood(responses[1])
         /\ effects[2].arg = responses[1].token
    /\ Len(effects) >= 3 =>
         /\ Len(responses) = 2 /\ ListResponseGood(responses[2])
         /\ accounts = responses[2].result
         /\ assets = SelectSeq(accounts, LAMBDA a : a.IsAsset)
         /\ liabilities = SelectSeq(accounts, LAMBDA a : ~a.IsAsset /\ a.IsLiability)
    /\ Len(effects) = 5 =>
         /\ effects[5].body = htmlContent
         /\ htmlContent = generateHTMLReport(assets, liabilities)
    /\ (pc = "assetsExported") <=> (Len(effects) = 3)
    /\ pc \in {"exported", "reported"} => Len(effects) = 4

C12_Witness ==
    /\ pc = "returned"
    /\ Len(effects) = 5
    /\ Len(assets) = 1
    /\ Len(liabilities) = 1

\* Reading a file back with encoding/csv's Reader in its default settings:
\* records are lines, fields are separated by commas, a field that starts
\* with a quote runs to its closing quote with "" standing for a quote, a
\* carriage return before a line feed is dropped, empty lines are skipped,
\* and every record must have as many fields as the first.
FieldEnd(field, next, sep) == [field |-> field, next |-> next, sep |-> sep, err |-> FALSE]

FieldError == [field |-> <<>>, next |-> 0, sep |-> "", err |-> TRUE]

CRLFAt(text, i) == i < Len(text) /\ text[i] = "\r" /\ text[i + 1] = "\n"

RECURSIVE ScanPlain(_, _, _)
\* an unquoted field from text[i] on: it ends at a comma, at the end of the
\* line or of the text, and may not hold a quote
ScanPlain(text, i, field) ==
    IF i > Len(text) THEN FieldEnd(field, i, "eof")
    ELSE IF text[i] = "," THEN FieldEnd(field, i + 1, ",")
    ELSE IF text[i] = "\n" THEN FieldEnd(field, i + 1, "\n")
    ELSE IF CRLFAt(text, i) THEN FieldEnd(field, i + 2, "\n")
    ELSE IF text[i] = Quote THEN FieldError
    ELSE ScanPlain(text, i + 1, Append(field, text[i]))

RECURSIVE ScanQuoted(_, _, _)
\* a quoted field, text[i] being the character after the opening quote
ScanQuoted(text, i, field) ==
    IF i > Len(text) THEN FieldError
    ELSE IF text[i] = Quote
    THEN IF i = Len(text) THEN FieldEnd(field, i + 1, "eof")
         ELSE IF text[i + 1] = Quote
         THEN ScanQuoted(text, i + 2, Append(field, Quote))
         ELSE IF text[i + 1] = "," THEN FieldEnd(field, i + 2, ",")
         ELSE IF text[i + 1] = "\n" THEN FieldEnd(field, i + 2, "\n")
         ELSE IF CRLFAt(text, i + 1) THEN FieldEnd(field, i + 3, "\n")
         ELSE FieldError
    ELSE IF CRLFAt(text, i) THEN ScanQuoted(text, i + 1, field)
    ELSE ScanQuoted(text, i + 1, Append(field, text[i]))

ReadField(text, i) ==
    IF i <= Len(text) /\ text[i] = Quote
    THEN ScanQuoted(text, i + 1, <<>>)
    ELSE ScanPlain(text, i, <<>>)

RECURSIVE ReadRecord(_, _, _)
\* the fields of the line that starts at text[i]
ReadRecord(text, i, record) ==
    LET f == ReadField(text, i)
    IN  IF f.err THEN [record |-> record, next |-> 0, err |-> TRUE]
        ELSE IF f.sep = ","
        THEN ReadRecord(text, f.next, Append(record, f.field))
        ELSE [record |-> Append(record, f.field), next |-> f.next, err |-> FALSE]

RECURSIVE ReadAll(_, _, _)
ReadAll(text, i, records) ==
    IF i > Len(text) THEN [err |-> FALSE, records |-> records]
    ELSE IF text[i] = "\n" THEN ReadAll(text, i + 1, records)
    ELSE IF CRLFAt(text, i) THEN ReadAll(text, i + 2, records)
    ELSE LET r == ReadRecord(text, i, <<>>)
         IN  IF r.err \/ (records # <<>> /\ Len(r.record) # Len(records[1]))
             THEN [err |-> TRUE, records |-> records]
             ELSE ReadAll(text, r.next, Append(records, r.record))

ParseCSV(text) == ReadAll(text, 1, <<>>)

ErrorLogged(msg, filename) ==
    \E i \in 1..Len(logged) : logged[i].msg = msg /\ logged[i].file = filename

\* exportToCSV(filename, ...) ran and neither os.Create nor WriteAll failed
WriteSucceeded(filename) ==
    /\ Called("create", filename)
    /\ ~ErrorLogged("Could not create file", filename)
    /\ ~ErrorLogged("Error writing data", filename)

Bucket(filename) == IF filename = "assets.csv" THEN assets ELSE liabilities

HeaderCells ==
    << <<"ID">>, <<"Name">>, <<"Currency">>, <<"Balance">>, <<"Category">>,
       <<"IsAsset">>, <<"IsLiability">>, <<"Comment">> >>

\* C13: a file that exportToCSV wrote without error, an empty bucket's
\* included, parses back without error to the header row ID, Name,
\* Currency, Balance, Category, IsAsset, IsLiability, Comment followed by
\* exactly one row per account of the bucket, in the bucket's order
C13_CsvRoundTrip ==
    \A f \in {"assets.csv", "liabilities.csv"} :
        WriteSucceeded(f) =>
            LET parsed == ParseCSV(files[f].text)
                bucket == Bucket(f)
            IN  /\ ~parsed.err
                /\ Len(parsed.records) = 1 + Len(bucket)
                /\ parsed.records[1] = HeaderCells
                /\ \A i \in 1..Len(bucket) :
                     /\ Len(parsed.records[i + 1]) = Len(HeaderCells)
                     /\ parsed.records[i + 1][1] = <<bucket[i].ID>>
                     /\ parsed.records[i + 1][2] = <<bucket[i].Name>>

C13_Witness ==
    /\ WriteSucceeded("assets.csv")
    /\ WriteSucceeded("liabilities.csv")
    /\ liabilities = <<>>
    /\ Len(assets) = 2
    /\ assets[1].Comment = <<"x", "\n", "y">>
    /\ assets[2].Comment = <<"a", ",", "b">>

\* the accounts the list response carried that are flagged as assets
ListedAssets == SelectSeq(responses[2].result, LAMBDA a : a.IsAsset)

\* C14: after an authentication that returned a token and a list response
\* that succeeded, the assets.csv the run wrote holds exactly one data row
\* per listed account flagged as an asset, in list order, whose Balance cell
\* is the account's balance in major units; for the single listed account
\* {id 1, USD, balance 1050, asset} that is one row with Balance 10.50, and
\* liabilities.csv holds the header only
C14_EndToEnd ==
    /\ WriteSucceeded("assets.csv") =>
        /\ AuthResponseGood(responses[1]) /\ ListResponseGood(responses[2])
        /\ Len(AssetRows) = 1 + Len(ListedAssets)
        /\ AssetRows[1] = csvHeader
        /\ \A i \in 1..Len(ListedAssets) :
             LET a == ListedAssets[i]
                 row == AssetRows[i + 1]
             IN  /\ row[1] = a.ID
                 /\ RendersBalance(row[4], a.Balance, ClaimedExponent(a.Currency))
                 /\ (a.Currency = USD /\ a.Balance = 1050)
                      => row[4] = <<"1", "0", ".", "5", "0">>
    /\ (WriteSucceeded("liabilities.csv")
          /\ responses[2].result = <<Account("1", USD, 1050, TRUE, FALSE)>>)
         => files["liabilities.csv"].rows = <<csvHeader>>

C14_Witness ==
    /\ pc = "returned"
    /\ responses[1].token = "abc"
    /\ responses[2].result = <<Account("1", USD, 1050, TRUE, FALSE)>>
    /\ WriteSucceeded("assets.csv")
    /\ WriteSucceeded("liabilities.csv")
    /\ Len(AssetRows) = 2
    /\ AssetRows[2][4] = <<"1", "0", ".", "5", "0">>
    /\ ParseCSV(files["liabilities.csv"].text).records = <<HeaderCells>>

DebugMessages ==
    {"DEBUG: Auth Request", "DEBUG: Auth Response", "DEBUG: List Request",
     "DEBUG: List Response"}

WithoutDebugLines(out) == SelectSeq(out, LAMBDA l : l.msg \notin DebugMessages)

\* the two results agree in everything but the console lines, and the
\* console lines differ by debug dumps only
SameButDebugOutput(withDebug, without) ==
    /\ [withDebug EXCEPT !.out = <<>>] = [without EXCEPT !.out = <<>>]
    /\ WithoutDebugLines(withDebug.out) = without.out

\* C15: at the authentication step and at the list step, whatever the
\* server answers, the call with -debug and the call without it make the
\* same request, return the same token or accounts and the same error, and
\* print the same lines apart from the debug dumps; a run without -debug
\* prints no debug dump
C15_DebugNonInterference ==
    /\ pc = "validated" =>
         \A resp \in AuthResponses :
             SameButDebugOutput(getAuthTokenIn(TRUE, resp), getAuthTokenIn(FALSE, resp))
    /\ pc = "authed" =>
         \A resp \in ListResponses :
             SameButDebugOutput(fetchAccountListIn(TRUE, authToken, resp),
                                fetchAccountListIn(FALSE, authToken, resp))
    /\ ~debugMode => WithoutDebugLines(stdout) = stdout

C15_Witness ==
    /\ debugMode
    /\ pc = "returned"
    /\ Printed("DEBUG: Auth Response")
    /\ Printed("DEBUG: List Response")
    /\ WriteSucceeded("assets.csv")

Echoed(filename, rows) ==
    \E i \in 1..Len(stdout) :
        /\ stdout[i].msg = "Console Output"
        /\ stdout[i].file = filename
        /\ stdout[i].rows = rows

\* C16: with -print, every call of exportToCSV echoes the header and the
\* bucket's rows to the console, whether or not the file could be created
\* and written; what a successful write leaves in the file is the same rows
\* with or without the echo; without -print nothing is echoed
C16_EchoIndependentOfFile ==
    \A f \in {"assets.csv", "liabilities.csv"} :
        /\ (printMode /\ Called("create", f)) => Echoed(f, csvData(Bucket(f)))
        /\ WriteSucceeded(f) => files[f].rows = csvData(Bucket(f))
        /\ ~printMode => ~Printed("Console Output")

\* every file is as its export left it: whole after a good write, absent
\* after a failed creation, an initial part of the rows after a failed write
FilesAsWritten ==
    \A f \in {"assets.csv", "liabilities.csv"} :
        LET rows == csvData(Bucket(f))
        IN  /\ WriteSucceeded(f) => files[f].exists /\ files[f].rows = rows
            /\ ErrorLogged("Could not create file", f) => ~files[f].exists
            /\ ErrorLogged("Error writing data", f) =>
                 /\ files[f].exists
                 /\ Len(files[f].rows) < Len(rows)
                 /\ files[f].rows = SubSeq(rows, 1, Len(files[f].rows))

\* sendReportEmail was called and did not report success
SendFailed == CallCount("smtp") >= 1 /\ ~Printed("Email report successfully sent")

\* C17: when the send of the report fails, the run has ended with a
\* non-zero status and the failure logged, no success line was printed,
\* both exports were attempted before the send and their files are as the
\* exports left them, and the send was made once, as the last external call
C17_EmailFailureIsFatal ==
    SendFailed =>
        /\ pc = "exit"
        /\ exitCode > 0
        /\ Logged("Failed to send email")
        /\ CallCount("smtp") = 1
        /\ effects[Len(effects)].op = "smtp"
        /\ EffectKinds[Len(effects) - 2] = "assets.csv"
        /\ EffectKinds[Len(effects) - 1] = "liabilities.csv"
        /\ FilesAsWritten

C17_Witness ==
    /\ SendFailed
    /\ pc = "exit"
    /\ WriteSucceeded("assets.csv")
    /\ ErrorLogged("Error writing data", "liabilities.csv")
    /\ Len(files["assets.csv"].rows) = 2

Sign(n) == IF n >= 0 THEN "positive" ELSE "negative"

Reported == pc \in {"reported", "returned"}

\* C18 as claimed: in every summary entry, each of Total Assets, Total
\* Liabilities and Net Assets is tagged positive or negative by the sign of
\* the value shown
C18_ClassesBySign ==
    Reported =>
        \A e \in htmlContent.summary :
            /\ e.totalAssetsClass = Sign(e.totalAssets)
            /\ e.totalLiabilitiesClass = Sign(e.totalLiabilities)
            /\ e.netAssetsClass = Sign(e.netAssets)

\* C18 as the code has it: Net Assets is tagged by the sign of the value
\* shown; Total Assets is always tagged positive and Total Liabilities
\* always negative, whatever their values
C18_NetBySignOthersFixed ==
    Reported =>
        \A e \in htmlContent.summary :
            /\ e.totalAssetsClass = "positive"
            /\ e.totalLiabilitiesClass = "negative"
            /\ e.netAssetsClass = Sign(e.netAssets)

C18_Witness ==
    /\ Reported
    /\ \E e \in htmlContent.summary : e.totalAssets < 0 /\ e.netAssets < 0
    /\ \E e \in htmlContent.summary : e.totalLiabilities = 0 /\ e.netAssets > 0

BucketCurrencies(bucket) == {bucket[i].Currency : i \in 1..Len(bucket)}

\* C19: the summary has exactly one entry, with its three figures, for every
\* currency that occurs in the assets bucket or in the liabilities bucket,
\* a currency with liabilities and no asset included, and for no other
C19_SummaryCoversBothBuckets ==
    Reported =>
        LET shown == {e.currency : e \in htmlContent.summary}
        IN  /\ shown = BucketCurrencies(assets) \cup BucketCurrencies(liabilities)
            /\ Cardinality(htmlContent.summary) = Cardinality(shown)

Created(filename) ==
    Cardinality({i \in 1..Len(effects) :
                    effects[i].op = "create" /\ effects[i].arg = filename})

\* C20: a run makes at most one auth request, at most one list request and
\* at most one email send, and creates each of assets.csv and
\* liabilities.csv at most once, whether the operation failed or not
C20_NoRetries ==
    /\ CallCount("auth") <= 1
    /\ CallCount("list") <= 1
    /\ CallCount("smtp") <= 1
    /\ Created("assets.csv") <= 1
    /\ Created("liabilities.csv") <= 1
    /\ Len(responses) <= 2

C20_Witness ==
    /\ pc = "exit"
    /\ CallCount("auth") = 1
    /\ CallCount("list") = 1
    /\ ~responses[2].transport

\* C21: in a run given -url, -user and -pass on the command line, with a
\* readable config file in place, the settings no flag gave (EMAIL_TO,
\* SMTP_HOST, SMTP_USER, SMTP_PASS, SMTP_FROM) are taken from the file
C21_FileReadWhenRequiredFlagsGiven ==
    [][(pc = "parsed" /\ baseURL # "" /\ loginName # "" /\ password # ""
          /\ configFile.exists /\ configFile.parses) =>
        LET file == configFile.vars
        IN  /\ emailRecipient' = IF emailRecipient # "" THEN emailRecipient
                                 ELSE file.EMAIL_TO
            /\ smtpHost' = IF smtpHost # "" THEN smtpHost ELSE file.SMTP_HOST
            /\ smtpUsername' = IF smtpUsername # "" THEN smtpUsername ELSE file.SMTP_USER
            /\ smtpPassword' = IF smtpPassword # "" THEN smtpPassword ELSE file.SMTP_PASS
            /\ smtpSender' = IF smtpSender # "" THEN smtpSender ELSE file.SMTP_FROM]_vars

BothFlags(a) == a.IsAsset /\ a.IsLiability

\* C22: an account flagged both asset and liability is in the assets bucket
\* and never in the liabilities bucket; its row of assets.csv shows
\* IsAsset true and IsLiability true; its balance cell in the report's
\* Assets table is tagged negative
C22_BothFlagsAccount ==
    Separated =>
        /\ \A i \in 1..Len(accounts) :
             BothFlags(accounts[i]) =>
                 /\ accounts[i] \in Range(assets)
                 /\ accounts[i] \notin Range(liabilities)
        /\ \A k \in 1..Len(liabilities) : ~BothFlags(liabilities[k])
        /\ \A k \in 1..Len(assets) :
             BothFlags(assets[k]) =>
                 /\ WriteSucceeded("assets.csv") =>
                      /\ AssetRows[k + 1][1] = assets[k].ID
                      /\ AssetRows[k + 1][6] = "true"
                      /\ AssetRows[k + 1][7] = "true"
                 /\ Reported =>
                      /\ htmlContent.assetTable[k].name = assets[k].Name
                      /\ htmlContent.assetTable[k].balanceClass = "negative"

C22_Witness ==
    /\ pc = "reported"
    /\ WriteSucceeded("assets.csv")
    /\ Len(assets) = 2
    /\ BothFlags(assets[2])
    /\ ~BothFlags(assets[1])
    /\ Len(liabilities) = 1
    /\ htmlContent.assetTable[1].balanceClass = "positive"
    /\ htmlContent.assetTable[2].balanceClass = "negative"

RECURSIVE ExactSumOver(_, _, _, _)
\* the sum of (balance * 1000) / divisor over the accounts of bucket[i..]
\* whose currency is k character for character
ExactSumOver(bucket, k, divisor, i) ==
    IF i > Len(bucket) THEN 0
    ELSE (IF bucket[i].Currency = k
          THEN (bucket[i].Balance * 1000) \div divisor
          ELSE 0)
         + ExactSumOver(bucket, k, divisor, i + 1)

\* the sum, in thousandths of a major unit, of balance / 10^exponent over
\* the accounts of bucket[i..] whose currency is k character for character
ExactCurrencySum(bucket, k, i) ==
    IF \A j \in i..Len(bucket) : bucket[j].Currency # k THEN 0
    ELSE LET divisor == Pow10(ClaimedExponent(k))
         IN  ExactSumOver(bucket, k, divisor, i)

\* the totals of one bucket are keyed by its currency strings as received
\* and each is the exact sum over the accounts with that very string
TotalsExact(bucket) ==
    LET totals == calculateTotalBalances(bucket)
    IN  /\ DOMAIN totals = BucketCurrencies(bucket)
        /\ \A i \in 1..Len(bucket) :
             totals[bucket[i].Currency] = ExactCurrencySum(bucket, bucket[i].Currency, 1)

\* C23: calculateTotalBalances has one key per currency string of the
\* bucket as received, its value the sum of balance / 10^exponent over the
\* accounts with exactly that string, the exponent found whatever the
\* letter case; the report pairs an asset total with the liability total
\* of the identical string, and with none when no liability has it
C23_TotalsGroupedCaseSensitively ==
    Reported =>
        /\ TotalsExact(assets)
        /\ TotalsExact(liabilities)
        /\ \A e \in htmlContent.summary :
             /\ e.currency \in BucketCurrencies(assets)
             /\ e.totalLiabilities = ExactCurrencySum(liabilities, e.currency, 1)
             /\ e.totalAssets + e.totalLiabilities = ExactCurrencySum(assets, e.currency, 1)

C23_Witness ==
    /\ Reported
    /\ \E e1, e2 \in htmlContent.summary :
         /\ e1.currency = USD
         /\ e2.currency = <<"u", "s", "d">>
         /\ e1.totalLiabilities < 0
         /\ e2.totalLiabilities = 0
         /\ e2.netAssets = 10500
         /\ e1.netAssets = 1000000

\* the number of hundredths a printed figure states
ShownValue(text) ==
    IF Head(text) = "-" THEN -DigitsValue(Tail(text), 0) ELSE DigitsValue(text, 0)

\* the values behind the three figures: Total Assets is the assets total
\* minus the liabilities total, Net Assets is the assets total alone
SummaryValues(e) ==
    LET assetTotal == ExactCurrencySum(assets, e.currency, 1)
        liabilityTotal == ExactCurrencySum(liabilities, e.currency, 1)
    IN  /\ e.totalAssets = assetTotal - liabilityTotal
        /\ e.totalLiabilities = liabilityTotal
        /\ e.netAssets = assetTotal
        /\ e.netAssets = e.totalAssets + e.totalLiabilities

FiguresAddUp(e) ==
    ShownValue(e.netAssetsText)
        = ShownValue(e.totalAssetsText) + ShownValue(e.totalLiabilitiesText)

\* C24 as claimed: Total Assets is the assets total minus the liabilities
\* total, Net Assets is the assets total alone, and the three figures as
\* displayed always satisfy Net Assets = Total Assets + Total Liabilities
C24_DisplayedFiguresAddUp ==
    Reported =>
        \A e \in htmlContent.summary : SummaryValues(e) /\ FiguresAddUp(e)

\* C24 as the code has it: the values are as claimed and add up exactly;
\* the figures printed with two decimals add up for every currency whose
\* exponent is at most 2
C24_ValuesAddUp ==
    Reported =>
        \A e \in htmlContent.summary :
            /\ SummaryValues(e)
            /\ ClaimedExponent(e.currency) <= 2 => FiguresAddUp(e)

C24_Witness ==
    /\ Reported
    /\ \E e \in htmlContent.summary :
         /\ e.currency = USD
         /\ e.totalAssetsText = <<"2", "0", "5", "0", ".", "5", "0">>
         /\ e.totalLiabilitiesText = <<"-", "1", "0", "5", "0", ".", "5", "0">>
         /\ e.netAssetsText = <<"1", "0", "0", "0", ".", "0", "0">>
    /\ \E e \in htmlContent.summary :
         /\ e.currency = KWD
         /\ e.totalAssets = 12344
         /\ e.netAssetsText = <<"1", "2", ".", "3", "4">>

\* the auth response was 200 with a body that decoded and held no token
TokenlessAuth ==
    /\ Len(responses) >= 1
    /\ AuthResponseGood(responses[1])
    /\ responses[1].token = ""

\* C25: an auth response with status 200 and valid JSON that carries no
\* token is not a failure: no authentication error is logged, the token is
\* reported as retrieved, main holds the empty token, and the list request
\* that follows is sent with the empty token as its bearer
C25_EmptyTokenAccepted ==
    TokenlessAuth =>
        /\ ~Logged("Failed to get authentication token")
        /\ Printed("Successfully retrieved token")
        /\ authToken = ""
        /\ \/ pc = "authed" /\ ENABLED FetchAccounts
           \/ Len(effects) >= 2 /\ effects[2] = Call("list", "")
        /\ pc = "exit" => Logged("Failed to fetch account list") \/ Logged("Failed to send email")

C25_Witness ==
    /\ TokenlessAuth
    /\ pc = "returned"
    /\ effects[2] = Call("list", "")
    /\ ListResponseGood(responses[2])
    /\ Len(assets) = 1

=============================================================================
